---- MODULE Spec2Model ----
(***************************************************************************)
(* Model of lib/cluster-pool.js: a cluster of generic-pool pools, one per  *)
(* server, with the selection done by me.acquire and the four aggregate    *)
(* statistics.  Member indices are 0-based as in the JavaScript source;    *)
(* the TLA+ sequences holding them are 1-based, hence the PoolAt accessor. *)
(***************************************************************************)
EXTENDS Integers, Sequences, FiniteSets, TLC

\* Bounds of the model.
MaxMembers == 3
MaxAcquires == 4
FactoryMax == 1
FactoryMin == 1
MaxSteady == 8

\* JavaScript's undefined / null, for indices, priorities and clients.
Undefined == -1

\* The values a caller may give as the priority argument of me.acquire.
Priorities == {Undefined, 0, 1}

\* How the producer (the create function given to add) behaves when called.
Producers == {"ok", "err", "later"}

\* cluster, index: the me object whose methods are being called (this).
\* reqs: the requests made on it.  added, last, run: what has been done.
\* factory: the configuration object given to create.  self, other: which
\* create call made the object in use, and the state of the object made by
\* the other call.  budget, servers: how many acquire and add calls the
\* callers will still make.
VARIABLES cluster, index, reqs, added, last, run, factory, self, other,
          budget, servers

vars == <<cluster, index, reqs, added, last, run, factory, self, other,
          budget, servers>>

\* What no operation on the object in use touches.
rest == <<factory, self, other>>

----------------------------------------------------------------------------
\* The configuration object of the tests: max alone, so min is 0.
TestFactory == [max |-> FactoryMax, min |-> 0]

\* A configuration object with a minimum, as in the README's usage example.
MinFactory == [max |-> FactoryMax + 1, min |-> FactoryMin]

\* me.add: pool_factory, a copy of the factory's fields with create set to
\* the producer given to add.
PoolFactory(f, create) == [max |-> f.max, min |-> f.min, create |-> create]

\* The member pool built by PoolModule.Pool(pool_factory), before it fills
\* its minimum.
PoolModulePool(pool_factory) ==
  [max |-> pool_factory.max, min |-> pool_factory.min,
   create |-> pool_factory.create, count |-> 0, availableObjects |-> <<>>,
   waitingClients |-> <<>>, creating |-> 0, ticks |-> 0]

PoolAt(cl, i) == cl[i + 1]

SetPool(cl, i, p) == [cl EXCEPT ![i + 1] = p]

\* The three counters a member pool reports.
PoolWaitingClientsCount(p) == Len(p.waitingClients)

PoolGetPoolSize(p) == p.count

PoolAvailableObjectsCount(p) == Len(p.availableObjects)

\* A request as the caller sees it: how often its callback ran and with what,
\* and whether the client was given back.
NewRequest ==
  [pool |-> Undefined, calls |-> 0, err |-> "null", client |-> Undefined,
   handle |-> Undefined, released |-> FALSE]

\* The state the member pools and the callers' callbacks act on.
St(cl, rs) == [cluster |-> cl, reqs |-> rs]

----------------------------------------------------------------------------
\* Variants of the closure: one that reads the selected pool from a variable
\* shared by all acquires (so it sees the latest selection), one that
\* forwards errors only, one that reports a failure with an error of its
\* own, and one that reads the caller's callback from a variable shared by
\* all acquires (so it calls the latest one).
WrappedCallbackSharedPool(rs, id, err, client) ==
  [rs EXCEPT ![id] = [@ EXCEPT !.calls = @ + 1, !.err = err,
                                !.client = client, !.handle = rs[Len(rs)].pool]]

WrappedCallbackErrorsOnly(rs, id, err, client) ==
  IF err = "null" THEN rs
  ELSE [rs EXCEPT ![id] = [@ EXCEPT !.calls = @ + 1, !.err = err,
                                     !.client = client, !.handle = rs[id].pool]]

WrappedCallbackOwnError(rs, id, err, client) ==
  [rs EXCEPT ![id] = [@ EXCEPT !.calls = @ + 1,
                                !.err = IF err = "null" THEN "null"
                                        ELSE "ClusterError",
                                !.client = client, !.handle = rs[id].pool]]

WrappedCallbackSharedCallback(rs, id, err, client) ==
  [rs EXCEPT ![Len(rs)] = [@ EXCEPT !.calls = @ + 1, !.err = err,
                                     !.client = client, !.handle = rs[id].pool]]

\* me.acquire: the closure handed to pool.acquire, which forwards the pool's
\* answer to the caller's callback together with the selected pool.
WrappedCallback(rs, id, err, client) ==
  [rs EXCEPT ![id] = [@ EXCEPT !.calls = @ + 1, !.err = err,
                                !.client = client, !.handle = rs[id].pool]]

\* A variant that reports the error and then goes on to call back again.
NoServersCallbackTwice(rs, id) ==
  [rs EXCEPT ![id] = [@ EXCEPT !.calls = @ + 2, !.err = "NoServers"]]

\* me.acquire on an empty cluster: callback(new Error(...)) and nothing else.
NoServersCallback(rs, id) ==
  [rs EXCEPT ![id] = [@ EXCEPT !.calls = @ + 1, !.err = "NoServers"]]

----------------------------------------------------------------------------
\* The member pool (generic-pool): createResource's completion callback.
\* The client at the head of the queue, if any, gets the outcome; a failure
\* gives back the slot and schedules a dispense on the next tick.
PoolCreateDone(st, m, err) ==
  LET p == PoolAt(st.cluster, m)
      has == Len(p.waitingClients) > 0
      q == IF has THEN Tail(p.waitingClients) ELSE p.waitingClients
  IN IF err # "null"
     THEN St(SetPool(st.cluster, m,
                     [p EXCEPT !.count = @ - 1, !.waitingClients = q,
                               !.ticks = @ + 1]),
             IF has
             THEN WrappedCallback(st.reqs, Head(p.waitingClients).cb, err, Undefined)
             ELSE st.reqs)
     ELSE IF has
          THEN St(SetPool(st.cluster, m, [p EXCEPT !.waitingClients = q]),
                  WrappedCallback(st.reqs, Head(p.waitingClients).cb, "null",
                                  p.create))
          ELSE St(SetPool(st.cluster, m,
                          [p EXCEPT !.availableObjects = Append(@, p.create)]),
                  st.reqs)

\* createResource: count the resource and call the producer, which answers
\* at once ("ok", "err") or later.
PoolCreateResource(st, m, prod) ==
  LET p == PoolAt(st.cluster, m)
      st1 == St(SetPool(st.cluster, m, [p EXCEPT !.count = @ + 1]), st.reqs)
  IN IF prod = "later"
     THEN St(SetPool(st.cluster, m,
                     [p EXCEPT !.count = @ + 1, !.creating = @ + 1]), st.reqs)
     ELSE PoolCreateDone(st1, m, IF prod = "ok" THEN "null" ELSE "ProducerError")

\* ensureMinimum: when the pool is created or a resource destroyed, create
\* resources until min exist.
RECURSIVE PoolCreateResources(_, _, _, _)
PoolCreateResources(st, m, prod, diff) ==
  IF diff <= 0 THEN st
  ELSE PoolCreateResources(PoolCreateResource(st, m, prod), m, prod, diff - 1)

PoolEnsureMinimum(st, m, prod) ==
  LET p == PoolAt(st.cluster, m)
  IN IF p.count < p.min
     THEN PoolCreateResources(st, m, prod, p.min - p.count)
     ELSE st

\* dispense: serve the first waiting client from an idle resource, or start
\* a new resource while fewer than max exist.
PoolDispense(st, m, prod) ==
  LET p == PoolAt(st.cluster, m)
  IN IF Len(p.waitingClients) = 0 THEN st
     ELSE IF Len(p.availableObjects) > 0
          THEN St(SetPool(st.cluster, m,
                          [p EXCEPT !.availableObjects = Tail(@),
                                    !.waitingClients = Tail(@)]),
                  WrappedCallback(st.reqs, Head(p.waitingClients).cb, "null",
                                  Head(p.availableObjects)))
          ELSE IF p.count < p.max THEN PoolCreateResource(st, m, prod)
               ELSE st

\* pool.acquire(callback, priority): queue the client, then dispense.
PoolAcquire(st, m, cb, priority, prod) ==
  LET p == PoolAt(st.cluster, m)
      e == [cb |-> cb, priority |-> priority]
  IN PoolDispense(St(SetPool(st.cluster, m,
                             [p EXCEPT !.waitingClients = Append(@, e)]),
                     st.reqs), m, prod)

\* pool.release(client): the resource becomes idle, then dispense.
PoolRelease(st, m, client) ==
  LET p == PoolAt(st.cluster, m)
  IN PoolDispense(St(SetPool(st.cluster, m,
                             [p EXCEPT !.availableObjects = Append(@, client)]),
                     st.reqs), m, "later")

----------------------------------------------------------------------------
\* underscore's _.min and _.indexOf on the poolWaiting array, a function
\* from the indices the scan has written to the counts it read there.
UnderscoreMin(a) ==
  CHOOSE v \in {a[i] : i \in DOMAIN a} : \A i \in DOMAIN a : v <= a[i]

UnderscoreIndexOf(a, v) ==
  IF \E i \in DOMAIN a : a[i] = v
  THEN CHOOSE i \in DOMAIN a : a[i] = v /\ \A j \in DOMAIN a : a[j] = v => i <= j
  ELSE -1

\* me.acquire, the while loop: read waiting counts from tryIndex on, wrapping
\* at the end of the list, until one is 0 or all members have been checked.
RECURSIVE ScanLoop(_, _, _, _, _)
ScanLoop(cl, tryIndex, checked, poolWaiting, reads) ==
  IF checked < Len(cl)
  THEN LET w == PoolWaitingClientsCount(PoolAt(cl, tryIndex))
           pw == (tryIndex :> w) @@ poolWaiting
           rd == Append(reads, tryIndex)
       IN IF w = 0
          THEN [useIndex |-> tryIndex, poolWaiting |-> pw, reads |-> rd]
          ELSE ScanLoop(cl, IF tryIndex + 1 >= Len(cl) THEN 0 ELSE tryIndex + 1,
                        checked + 1, pw, rd)
  ELSE [useIndex |-> Undefined, poolWaiting |-> poolWaiting, reads |-> reads]

\* Variants of the selection: the first member with the smallest waiting
\* count whatever the cursor is; the member at the cursor whatever the
\* waiting counts are; the scan's member, or else the member at the cursor.
SelectPoolLeastQueue(cl, idx) ==
  LET w == [i \in 0..(Len(cl) - 1) |-> PoolWaitingClientsCount(PoolAt(cl, i))]
  IN [useIndex |-> UnderscoreIndexOf(w, UnderscoreMin(w)),
      reads |-> [i \in 1..Len(cl) |-> i - 1]]

SelectPoolRoundRobin(cl, idx) == [useIndex |-> idx, reads |-> <<>>]

SelectPoolFallbackCursor(cl, idx) ==
  LET s == ScanLoop(cl, idx, 0, <<>>, <<>>)
  IN [useIndex |-> IF s.useIndex = Undefined THEN idx ELSE s.useIndex,
      reads |-> s.reads]

\* me.acquire, the selection: the scan's member, or else the first member
\* with the smallest waiting count.  (The test typeof useIndex == -1 that
\* follows in the source compares a string with a number and never holds.)
SelectPool(cl, idx) ==
  LET s == ScanLoop(cl, idx, 0, <<>>, <<>>)
  IN [useIndex |-> IF s.useIndex = Undefined
                   THEN UnderscoreIndexOf(s.poolWaiting, UnderscoreMin(s.poolWaiting))
                   ELSE s.useIndex,
      reads |-> s.reads]

\* A variant that leaves the cursor on the selected member.
NextIndexSame(useIndex, n) == useIndex

\* A variant that wraps one step late.
NextIndexLateWrap(useIndex, n) == IF useIndex + 1 > n THEN 0 ELSE useIndex + 1

\* A variant that restarts at the first member after every acquire.
NextIndexRestart(useIndex, n) == 0

\* me.acquire: this.index after the selection.
NextIndex(useIndex, n) == IF useIndex + 1 >= n THEN 0 ELSE useIndex + 1

\* A variant that binds pool after useIndex was incremented.
PoolIndexAfterIncrement(useIndex, n) ==
  IF useIndex + 1 >= n THEN 0 ELSE useIndex + 1

\* me.acquire: the member bound to var pool, read from this.cluster before
\* useIndex is incremented.
PoolIndex(useIndex, n) == useIndex

\* A variant that writes this.index after pool.acquire has returned.
IndexAtDelegationStale(idx, advanced) == idx

\* me.acquire: this.index at the time pool.acquire is called, and so at the
\* time the callback runs if the pool calls it before returning: the
\* assignments to this.index come before the call.
IndexAtDelegation(idx, advanced) == advanced

\* me.acquire: the priority the selected pool's acquire is called with.  The
\* source calls pool.acquire with the closure alone.
DelegatedPriority(priority) == Undefined

\* The waiting counts of all members, in member order.
WaitingCounts(cl) == [i \in 1..Len(cl) |-> PoolWaitingClientsCount(cl[i])]

\* Whether no member has a waiting client.
AllIdle(cl) == \A i \in 1..Len(cl) : PoolWaitingClientsCount(cl[i]) = 0

\* The latest requests that were made one after the other with the member
\* list unchanged and all waiting counts zero at each call: how many they
\* are, the cursor when the first of them was made, and whether they are
\* all the requests made since the latest add.
NoRun == [len |-> 0, start |-> 0, sinceAdd |-> FALSE]

RunAfterAdd == [len |-> 0, start |-> 0, sinceAdd |-> TRUE]

RunAfterAcquire(cl, idx, r) ==
  IF Len(cl) > 0 /\ AllIdle(cl)
  THEN [len |-> r.len + 1, start |-> IF r.len = 0 THEN idx ELSE r.start,
        sinceAdd |-> r.sinceAdd]
  ELSE NoRun

\* The state of the object made by the other create call, before any call
\* on it: cluster [] and index 0.
NoOther == [cluster |-> <<>>, index |-> 0, reqs |-> <<>>, added |-> 0,
            run |-> NoRun]

\* What the latest operation was and what it saw and did.

NoOp ==
  [op |-> "create", id |-> 0, priority |-> Undefined, memberPriority |-> Undefined,
   useIndex |-> Undefined, cursor |-> Undefined, before |-> <<>>,
   reads |-> <<>>, stats |-> <<>>, nested |-> FALSE]

----------------------------------------------------------------------------
\* create(factory): an empty member list and the cursor at 0.
Init ==
  /\ cluster = <<>>
  /\ index = 0
  /\ reqs = <<>>
  /\ added = 0
  /\ last = NoOp
  /\ run = NoRun
  /\ factory = TestFactory
  /\ self = 0
  /\ other = NoOther
  /\ budget = MaxAcquires
  /\ servers = MaxMembers

\* The producer given to the next add: a function of its own, named by the
\* cluster it is added to and its place there.
NewProducer == self * MaxMembers + Len(cluster)

\* A variant that puts the new pool in front of the others.
ClusterUnshift(cl, pool) == <<pool>> \o cl

\* me.add: this.cluster.push(pool)
ClusterPush(cl, pool) == Append(cl, pool)

\* me.add(create), with prod the way the producer answers if the new pool
\* calls it to fill its minimum.
Add ==
  /\ servers > 0
  /\ \E prod \in Producers :
       LET pool_factory == PoolFactory(factory, NewProducer)
           pushed == ClusterPush(cluster, PoolModulePool(pool_factory))
           st == PoolEnsureMinimum(St(pushed, reqs), Len(cluster), prod)
       IN /\ cluster' = st.cluster
          /\ reqs' = st.reqs
  /\ added' = added + 1
  /\ servers' = servers - 1
  /\ last' = [NoOp EXCEPT !.op = "add"]
  /\ run' = RunAfterAdd
  /\ UNCHANGED <<index, rest, budget>>

\* me.acquire(callback, priority), with prod the way the producer answers if
\* the selected pool calls it.
Acquire(priority, prod) ==
  /\ budget > 0
  /\ budget' = budget - 1
  /\ LET id == Len(reqs) + 1
         rs == Append(reqs, NewRequest)
     IN IF Len(cluster) = 0
        THEN /\ reqs' = NoServersCallback(rs, id)
             /\ last' = [NoOp EXCEPT !.op = "acquire", !.id = id,
                                     !.priority = priority, !.cursor = index]
             /\ UNCHANGED <<cluster, index>>
        ELSE LET s == SelectPool(cluster, index)
                 useIndex == s.useIndex
                 pool == PoolIndex(useIndex, Len(cluster))
                 st == PoolAcquire(St(cluster, [rs EXCEPT ![id].pool = pool]),
                                   pool, id, DelegatedPriority(priority), prod)
             IN /\ index' = NextIndex(useIndex, Len(cluster))
                /\ cluster' = st.cluster
                /\ reqs' = st.reqs
                /\ last' = [NoOp EXCEPT !.op = "acquire", !.id = id,
                                        !.priority = priority,
                                        !.memberPriority = DelegatedPriority(priority),
                                        !.useIndex = useIndex, !.cursor = index,
                                        !.before = cluster, !.reads = s.reads]
  /\ run' = RunAfterAcquire(cluster, index, run)
  /\ UNCHANGED <<added, rest, servers>>

\* me.acquire(callback, priority) on a cluster with members, where the
\* selected pool calls the callback before returning and the callback calls
\* me.acquire(callback2, priority2) in turn.  The inner call runs to its end
\* inside the outer one, which does nothing after pool.acquire.
AcquireNested(priority, prod, priority2, prod2) ==
  /\ budget > 1
  /\ Len(cluster) > 0
  /\ LET id == Len(reqs) + 1
         n == Len(cluster)
         s == SelectPool(cluster, index)
         pool == PoolIndex(s.useIndex, n)
         st == PoolAcquire(St(cluster, [Append(reqs, NewRequest) EXCEPT ![id].pool = pool]),
                           pool, id, DelegatedPriority(priority), prod)
         idx2 == IndexAtDelegation(index, NextIndex(s.useIndex, n))
         s2 == SelectPool(st.cluster, idx2)
         pool2 == PoolIndex(s2.useIndex, n)
         st2 == PoolAcquire(St(st.cluster,
                               [Append(st.reqs, NewRequest) EXCEPT ![id + 1].pool = pool2]),
                            pool2, id + 1, DelegatedPriority(priority2), prod2)
     IN /\ st.reqs[id].calls = 1
        /\ index' = NextIndex(s2.useIndex, n)
        /\ cluster' = st2.cluster
        /\ reqs' = st2.reqs
        /\ last' = [NoOp EXCEPT !.op = "acquire", !.id = id + 1,
                                !.priority = priority2,
                                !.memberPriority = DelegatedPriority(priority2),
                                !.useIndex = s2.useIndex, !.cursor = idx2,
                                !.before = st.cluster, !.reads = s2.reads,
                                !.nested = TRUE]
        /\ run' = RunAfterAcquire(st.cluster, idx2,
                                  RunAfterAcquire(cluster, index, run))
  /\ budget' = budget - 2
  /\ UNCHANGED <<added, rest, servers>>

\* A producer that did not answer at once answers now: the callback it was
\* given by member m's createResource runs with err.
ProducerDone(m, err) ==
  /\ m \in 0..(Len(cluster) - 1)
  /\ PoolAt(cluster, m).creating > 0
  /\ LET p == PoolAt(cluster, m)
         st == PoolCreateDone(St(SetPool(cluster, m, [p EXCEPT !.creating = @ - 1]),
                                 reqs), m, err)
     IN /\ cluster' = st.cluster
        /\ reqs' = st.reqs
  /\ last' = [NoOp EXCEPT !.op = "produced"]
  /\ UNCHANGED <<index, added, run, rest, budget, servers>>

\* The dispense that member m scheduled for the next tick after a failed
\* creation runs.
Tick(m, prod) ==
  /\ m \in 0..(Len(cluster) - 1)
  /\ PoolAt(cluster, m).ticks > 0
  /\ LET p == PoolAt(cluster, m)
         st == PoolDispense(St(SetPool(cluster, m, [p EXCEPT !.ticks = @ - 1]),
                               reqs), m, prod)
     IN /\ cluster' = st.cluster
        /\ reqs' = st.reqs
  /\ last' = [NoOp EXCEPT !.op = "tick"]
  /\ UNCHANGED <<index, added, run, rest, budget, servers>>

\* The caller of request id gives its client back with pool.release(client),
\* pool being the handle its callback received.
Release(id) ==
  /\ id \in 1..Len(reqs)
  /\ reqs[id].calls > 0
  /\ reqs[id].client # Undefined
  /\ ~reqs[id].released
  /\ LET st == PoolRelease(St(cluster, [reqs EXCEPT ![id].released = TRUE]),
                           reqs[id].handle, reqs[id].client)
     IN /\ cluster' = st.cluster
        /\ reqs' = st.reqs
  /\ last' = [NoOp EXCEPT !.op = "release", !.id = id]
  /\ UNCHANGED <<index, added, run, rest, budget, servers>>

\* Member m's pool destroys its oldest idle resource (idleTimeoutMillis).
ReapIdle(m) ==
  /\ m \in 0..(Len(cluster) - 1)
  /\ Len(PoolAt(cluster, m).availableObjects) > 0
  /\ \E prod \in Producers :
       LET destroyed == SetPool(cluster, m,
                                [PoolAt(cluster, m) EXCEPT
                                   !.count = @ - 1,
                                   !.availableObjects = Tail(@)])
           st == PoolEnsureMinimum(St(destroyed, reqs), m, prod)
       IN /\ cluster' = st.cluster
          /\ reqs' = st.reqs
  /\ last' = [NoOp EXCEPT !.op = "reap"]
  /\ UNCHANGED <<index, added, run, rest, budget, servers>>

----------------------------------------------------------------------------
\* me.getClusterSize()
getClusterSize(cl) == Len(cl)

\* A variant that leaves out the first member.
RECURSIVE getPoolSizeSkipFirst(_)
getPoolSizeSkipFirst(cl) ==
  IF Len(cl) <= 1 THEN 0
  ELSE getPoolSizeSkipFirst(SubSeq(cl, 1, Len(cl) - 1)) + PoolGetPoolSize(cl[Len(cl)])

\* me.getPoolSize(): forEach pool, count += pool.getPoolSize()
RECURSIVE getPoolSize(_)
getPoolSize(cl) ==
  IF cl = <<>> THEN 0
  ELSE getPoolSize(SubSeq(cl, 1, Len(cl) - 1)) + PoolGetPoolSize(cl[Len(cl)])

\* me.availableObjectsCount()
RECURSIVE availableObjectsCount(_)
availableObjectsCount(cl) ==
  IF cl = <<>> THEN 0
  ELSE availableObjectsCount(SubSeq(cl, 1, Len(cl) - 1))
       + PoolAvailableObjectsCount(cl[Len(cl)])

\* me.waitingClientsCount()
RECURSIVE waitingClientsCount(_)
waitingClientsCount(cl) ==
  IF cl = <<>> THEN 0
  ELSE waitingClientsCount(SubSeq(cl, 1, Len(cl) - 1))
       + PoolWaitingClientsCount(cl[Len(cl)])

\* A caller reads the four statistics.
GetStats ==
  /\ last' = [NoOp EXCEPT !.op = "stats",
                          !.stats = <<getClusterSize(cluster), getPoolSize(cluster),
                                      availableObjectsCount(cluster),
                                      waitingClientsCount(cluster)>>]
  /\ UNCHANGED <<cluster, index, reqs, added, run, rest, budget, servers>>

----------------------------------------------------------------------------
Next ==
  \/ Add
  \/ \E priority \in Priorities, prod \in Producers : Acquire(priority, prod)
  \/ \E m \in 0..(MaxMembers - 1), err \in {"null", "ProducerError"} : ProducerDone(m, err)
  \/ \E m \in 0..(MaxMembers - 1), prod \in Producers : Tick(m, prod)
  \/ \E id \in 1..MaxAcquires : Release(id)
  \/ \E m \in 0..(MaxMembers - 1) : ReapIdle(m)
  \/ GetStats

Spec == Init /\ [][Next]_vars

\* The program created with a configuration object that asks for a minimum.
InitMin ==
  /\ cluster = <<>>
  /\ index = 0
  /\ reqs = <<>>
  /\ added = 0
  /\ last = NoOp
  /\ run = NoRun
  /\ factory = MinFactory
  /\ self = 0
  /\ other = NoOther
  /\ budget = MaxAcquires
  /\ servers = MaxMembers

\* Its callers add members, acquire without a priority, and give clients
\* back; producers answer at once or later, and those that answer later
\* succeed.
NextMin ==
  \/ Add
  \/ \E prod \in Producers : Acquire(Undefined, prod)
  \/ \E m \in 0..(MaxMembers - 1) : ProducerDone(m, "null")
  \/ \E id \in 1..MaxAcquires : Release(id)

MinSpec == InitMin /\ [][NextMin]_vars

\* The program of a caller that adds its members first, to a cluster made
\* with either configuration object, and then only acquires, MaxSteady
\* times at most and never releasing, with producers that succeed at once.
InitSteady ==
  /\ cluster = <<>>
  /\ index = 0
  /\ reqs = <<>>
  /\ added = 0
  /\ last = NoOp
  /\ run = NoRun
  /\ factory \in {TestFactory, MinFactory}
  /\ self = 0
  /\ other = NoOther
  /\ budget = MaxSteady
  /\ servers = MaxMembers

NextSteady ==
  \/ /\ reqs = <<>>
     /\ Add
     /\ \A i \in 1..Len(cluster') : cluster'[i].creating = 0 /\ cluster'[i].ticks = 0
  \/ /\ Len(cluster) >= 1
     /\ \E priority \in Priorities : Acquire(priority, "ok")

SteadySpec == InitSteady /\ [][NextSteady]_vars

\* The program with callers whose callbacks may acquire again.
NextNested ==
  \/ Next
  \/ \E priority \in Priorities, prod \in Producers, prod2 \in Producers :
       AcquireNested(priority, prod, Undefined, prod2)

NestedSpec == Init /\ [][NextNested]_vars

\* A variant of create that keeps cluster and index in one place for all the
\* objects it returns.
MeShared(h) == 0

\* create: var me = { cluster: [], index: 0 }, an object of its own for each
\* call; h is the number of the call.
MeOf(h) == h

\* The state of the object in use.
This == [cluster |-> cluster, index |-> index, reqs |-> reqs, added |-> added,
         run |-> run]

\* The state of the object that create call h returned.
ObjectOf(h) == IF MeOf(h) = MeOf(self) THEN This ELSE other

\* What the cluster of create call h shows: its members, its cursor and its
\* four statistics.
View(h) ==
  LET o == ObjectOf(h)
  IN [cluster |-> o.cluster, index |-> o.index,
      stats |-> <<getClusterSize(o.cluster), getPoolSize(o.cluster),
                  availableObjectsCount(o.cluster),
                  waitingClientsCount(o.cluster)>>]

\* The caller turns to the cluster returned by the other create call: the
\* calls that follow are made on that object.
Turn ==
  /\ self' = 1 - self
  /\ IF MeOf(1 - self) = MeOf(self)
     THEN UNCHANGED <<cluster, index, reqs, added, run, other>>
     ELSE /\ cluster' = other.cluster
          /\ index' = other.index
          /\ reqs' = other.reqs
          /\ added' = other.added
          /\ run' = other.run
          /\ other' = This
  /\ last' = [NoOp EXCEPT !.op = "turn"]
  /\ UNCHANGED <<factory, budget, servers>>

\* The program with two clusters made from the same configuration object;
\* MaxMembers adds and MaxAcquires acquires are made in all.
NextTwo ==
  \/ Turn
  \/ Add
  \/ \E prod \in Producers : Acquire(Undefined, prod)
  \/ \E m \in 0..(MaxMembers - 1), err \in {"null", "ProducerError"} : ProducerDone(m, err)
  \/ \E id \in 1..MaxAcquires : Release(id)

TwoSpec == Init /\ [][NextTwo]_vars

\* The program with producers that always succeed, at once or later: a
\* producer that was called answers, and callers give back the clients they
\* got.
NextOk ==
  \/ Add
  \/ \E priority \in Priorities, prod \in {"ok", "later"} : Acquire(priority, prod)
  \/ \E m \in 0..(MaxMembers - 1) : ProducerDone(m, "null")
  \/ \E id \in 1..MaxAcquires : Release(id)
  \/ \E m \in 0..(MaxMembers - 1) : ReapIdle(m)
  \/ GetStats

FairSpec ==
  /\ Init /\ [][NextOk]_vars
  /\ WF_vars(\E m \in 0..(MaxMembers - 1) : ProducerDone(m, "null"))
  /\ WF_vars(\E id \in 1..MaxAcquires : Release(id))

----------------------------------------------------------------------------
\* The latest operation was an acquire that selected a member.
Selected == last.op = "acquire" /\ last.useIndex # Undefined

\* The waiting count member i (0-based) had when the latest acquire began.
WaitingBefore(i) == PoolWaitingClientsCount(PoolAt(last.before, i))

SizeBefore == Len(last.before)

\* The k-th member in the circular order that starts at the cursor.
FromCursor(k) == (last.cursor + k) % SizeBefore

\* C1: when some member has waiting count 0 as acquire is called, acquire
\* selects the first such member in the circular order cursor, cursor+1, ...,
\* cursor+N-1 (mod N), whatever the other counts are.
C1_FirstIdleFromCursor ==
  (Selected /\ \E i \in 0..(SizeBefore - 1) : WaitingBefore(i) = 0)
    => \E k \in 0..(SizeBefore - 1) :
         /\ last.useIndex = FromCursor(k)
         /\ WaitingBefore(FromCursor(k)) = 0
         /\ \A j \in 0..(k - 1) : WaitingBefore(FromCursor(j)) # 0

\* C1 happens: three members, the two at and after the cursor have waiting
\* clients, the third has none, is busy, and is selected.
C1_Witness ==
  /\ Selected
  /\ SizeBefore = 3
  /\ WaitingBefore(FromCursor(0)) > 0
  /\ WaitingBefore(FromCursor(1)) > 0
  /\ WaitingBefore(FromCursor(2)) = 0
  /\ PoolAt(last.before, FromCursor(2)).count > 0
  /\ last.useIndex = FromCursor(2)

\* The smallest waiting count any member had when the latest acquire began.
MinWaitingBefore ==
  CHOOSE v \in {WaitingBefore(i) : i \in 0..(SizeBefore - 1)} :
    \A i \in 0..(SizeBefore - 1) : v <= WaitingBefore(i)

\* C2: when every member has waiting count > 0 as acquire is called, acquire
\* selects a member with the minimum waiting count, the lowest-indexed one
\* among those, for every value of the cursor.
C2_LeastLoadedLowestIndex ==
  (Selected /\ \A i \in 0..(SizeBefore - 1) : WaitingBefore(i) > 0)
    => /\ WaitingBefore(last.useIndex) = MinWaitingBefore
       /\ \A i \in 0..(last.useIndex - 1) : WaitingBefore(i) > MinWaitingBefore

\* C2 happens: all members have waiting clients, two tie for the minimum,
\* the cursor is on the higher-indexed of the two and the lower is selected.
C2_Witness ==
  /\ Selected
  /\ \A i \in 0..(SizeBefore - 1) : WaitingBefore(i) > 0
  /\ last.cursor > last.useIndex
  /\ WaitingBefore(last.cursor) = WaitingBefore(last.useIndex)

\* C3: with the member list fixed and all waiting counts zero at each call,
\* consecutive acquires starting from cursor c select c, c+1, c+2, ...
\* (mod N) in that order, releases or not.
C3_IdleRotation ==
  \A j \in 0..(run.len - 1) :
    reqs[Len(reqs) - run.len + 1 + j].pool = (run.start + j) % Len(cluster)

\* C3 happens: three members, cursor 0, four acquires in a row with all
\* waiting counts zero and nothing released; the fourth is back on member 0.
C3_Witness ==
  /\ Len(cluster) = 3
  /\ run.len = 4
  /\ run.start = 0
  /\ \A id \in 1..Len(reqs) : ~reqs[id].released
  /\ reqs[Len(reqs)].pool = 0

\* C4: acquire on a cluster without members calls the callback exactly once,
\* with the configuration error and neither client nor member handle, reads
\* and calls no member pool, and leaves the cursor and the member list alone;
\* the request's record never changes afterwards.
C4_NoServers ==
  [][/\ (Len(cluster) = 0 /\ Len(reqs') = Len(reqs) + 1)
          => /\ reqs'[Len(reqs')] = [NewRequest EXCEPT !.calls = 1, !.err = "NoServers"]
             /\ last'.useIndex = Undefined
             /\ last'.reads = <<>>
             /\ cluster' = cluster
             /\ index' = index
     /\ \A id \in 1..Len(reqs) :
          reqs[id].err = "NoServers" => reqs'[id] = reqs[id]]_vars

\* C4 happens: an acquire was answered with the configuration error, and
\* members were added and another acquire served since.
C4_Witness ==
  /\ Len(reqs) >= 2
  /\ reqs[1].err = "NoServers"
  /\ reqs[1].calls = 1
  /\ Len(cluster) >= 1
  /\ reqs[2].calls = 1
  /\ reqs[2].client # Undefined

\* Whether pool p can serve a request at once: an idle resource, or room
\* for a new one.
CanServeNow(p) == Len(p.availableObjects) > 0 \/ p.count < p.max

\* C5: when some member can serve a request at once as acquire is called,
\* the request goes to such a member, never to one with all resources busy
\* at max.
C5_RoutedToFreeMember ==
  (Selected /\ \E i \in 0..(SizeBefore - 1) : CanServeNow(PoolAt(last.before, i)))
    => CanServeNow(PoolAt(last.before, last.useIndex))

\* C6: the selected member's waiting count at selection is at most that of
\* every other member.
C6_ShortestQueue ==
  Selected => \A i \in 0..(SizeBefore - 1) :
                WaitingBefore(last.useIndex) <= WaitingBefore(i)

\* C6 happens: the member at the cursor has the longer queue, and another
\* member, which also has waiting clients, is selected.
C6_Witness ==
  /\ Selected
  /\ WaitingBefore(last.useIndex) > 0
  /\ last.useIndex # last.cursor
  /\ WaitingBefore(last.cursor) > WaitingBefore(last.useIndex)

\* C7: the selected member's acquire is called with the priority the caller
\* gave, unmodified, and with none when the caller gave none.
C7_PriorityPassedOn == Selected => last.memberPriority = last.priority

\* C8: for an acquire on a cluster with members the callback runs at most
\* once, its third argument is the member selected for that acquire, the
\* client it gets was made by that member's producer, and clients given back
\* to that handle are idle in the pool they came from.
C8_HandleIsSelectedPool ==
  /\ \A id \in 1..Len(reqs) :
       reqs[id].pool # Undefined
         => /\ reqs[id].calls <= 1
            /\ reqs[id].calls = 1 => reqs[id].handle = reqs[id].pool
            /\ reqs[id].client # Undefined => reqs[id].client = reqs[id].handle
  /\ \A m \in 0..(Len(cluster) - 1) :
       \A k \in 1..Len(PoolAt(cluster, m).availableObjects) :
         PoolAt(cluster, m).availableObjects[k] = m

\* C8 happens: a request routed to member 1 waited while a later request
\* went to another member; it then got its client, and gave it back.
C8_Witness ==
  \E id \in 1..Len(reqs) :
    /\ reqs[id].pool = 1
    /\ reqs[id].calls = 1
    /\ reqs[id].released
    /\ reqs[Len(reqs)].pool # 1
    /\ Len(PoolAt(cluster, 1).availableObjects) > 0
    /\ last.op = "release"
    /\ last.id = id

\* C9: if producers always succeed and every client delivered is eventually
\* given back to the handle it came with, every acquire made on a cluster
\* with members eventually has its callback called, also when more acquires
\* are outstanding than the cluster has resources.
C9_EveryAcquireAnswered ==
  \A id \in 1..MaxAcquires :
    (Len(reqs) >= id /\ reqs[id].pool # Undefined)
      ~> (Len(reqs) >= id /\ reqs[id].calls >= 1)

\* C9 happens: more requests are unanswered or holding a client than the
\* cluster's members can have resources.
C9_Witness ==
  /\ Len(cluster) >= 2
  /\ \A id \in 1..Len(reqs) : reqs[id].pool # Undefined /\ ~reqs[id].released
  /\ Len(reqs) > Len(cluster) * FactoryMax
  /\ \E id \in 1..Len(reqs) : reqs[id].calls = 0

\* The number of pairs <<member, k>> with k at most the member's count F.
Total(cl, F(_)) ==
  Cardinality({mk \in (1..Len(cl)) \X (1..(MaxAcquires + 1)) : mk[2] <= F(cl[mk[1]])})

\* C10: getClusterSize() is the number of adds done, and getPoolSize(),
\* availableObjectsCount() and waitingClientsCount() are the sums of the
\* members' launched, available and waiting counts at the time of the call;
\* reading them changes nothing.
C10_Statistics ==
  [][last'.op = "stats"
       => /\ last'.stats = <<added, Total(cluster, PoolGetPoolSize),
                             Total(cluster, PoolAvailableObjectsCount),
                             Total(cluster, PoolWaitingClientsCount)>>
          /\ Len(cluster) = 0 => last'.stats = <<0, 0, 0, 0>>
          /\ UNCHANGED <<cluster, index, reqs, added, run>>]_vars

\* C10 happens: the statistics were read with several members, more than
\* one resource launched, one idle and a client waiting.
C10_Witness ==
  /\ last.op = "stats"
  /\ last.stats[1] >= 2
  /\ last.stats[2] >= 2
  /\ last.stats[3] >= 1
  /\ last.stats[4] >= 1
  /\ PoolAt(cluster, 0).count > 0
  /\ PoolAt(cluster, 1).count > 0

----------------------------------------------------------------------------
\* C13: in every state reached, by any interleaving of the operations, once
\* at least one add has completed, 0 <= cursor < N.
C13_CursorInRange ==
  added >= 1 => (0 <= index /\ index < Len(cluster))

\* C13 happens: with three members, acquires selected members 0 and 1, and
\* a later acquire selected the last member, so that the cursor wrapped.
C13_Witness ==
  /\ Selected
  /\ added = 3
  /\ Len(reqs) >= 3
  /\ reqs[1].pool = 0
  /\ reqs[2].pool = 1
  /\ last.useIndex = 2
  /\ index = 0

\* C15: after every acquire on a cluster with members that selected member
\* s, the cursor is (s + 1) mod N, N being the member count at that acquire,
\* whether s came from the scan or from the least-queue fallback.
C15_CursorFollowsSelection ==
  Selected => index = (last.useIndex + 1) % SizeBefore

\* C15 happens: every member had waiting clients, the fallback selected a
\* member that the cursor was not on, and the cursor moved to the member
\* after it.
C15_Witness ==
  /\ Selected
  /\ SizeBefore = 2
  /\ \A i \in 0..(SizeBefore - 1) : WaitingBefore(i) > 0
  /\ last.cursor = 1
  /\ last.useIndex = 0
  /\ index = 1

\* C16: an acquire changes only the cursor and the state of the one member
\* it selected: the member list has the same length, every other member has
\* the state it had before the call, and the scan read waiting counts only,
\* of the members from the cursor on in circular order, each at most once.
C16_OnlySelectedMemberChanges ==
  Selected
    => /\ Len(cluster) = SizeBefore
       /\ \A i \in 0..(SizeBefore - 1) :
            i # last.useIndex => PoolAt(cluster, i) = PoolAt(last.before, i)
       /\ Len(last.reads) <= SizeBefore
       /\ \A k \in 1..Len(last.reads) : last.reads[k] = FromCursor(k - 1)

\* C16 happens: of three members one has a client waiting and one has an
\* idle resource; the acquire selected the third and changed its state.
C16_Witness ==
  /\ Selected
  /\ SizeBefore = 3
  /\ PoolAt(cluster, last.useIndex) # PoolAt(last.before, last.useIndex)
  /\ \E i, j \in 0..2 :
       /\ i # last.useIndex
       /\ j # last.useIndex
       /\ PoolWaitingClientsCount(PoolAt(cluster, i)) > 0
       /\ PoolAvailableObjectsCount(PoolAt(cluster, j)) > 0

\* The places <<member, position>> of the member queues where request id
\* waits.
QueuedAt(id) ==
  {mk \in (0..(Len(cluster) - 1)) \X (1..(MaxAcquires + 1)) :
     /\ mk[2] <= Len(PoolAt(cluster, mk[1]).waitingClients)
     /\ PoolAt(cluster, mk[1]).waitingClients[mk[2]].cb = id}

\* C12: a request made on a cluster with members is handed to one member,
\* the selected one, once: it waits in that member's queue, or it has been
\* answered once and waits nowhere.  When the member's producer fails the
\* callback gets the producer's error as it is, no client, and the selected
\* member as handle; the request is not queued again, there or elsewhere.
\* The configuration error goes only to requests made without members.
C12_ProducerErrorPassedOn ==
  \A id \in 1..Len(reqs) :
    /\ reqs[id].err = "NoServers" => reqs[id].pool = Undefined
    /\ reqs[id].pool # Undefined
         => /\ reqs[id].err \in {"null", "ProducerError"}
            /\ Cardinality(QueuedAt(id)) + reqs[id].calls = 1
            /\ \A mk \in QueuedAt(id) : mk[1] = reqs[id].pool
            /\ reqs[id].err = "ProducerError"
                 => /\ reqs[id].calls = 1
                    /\ reqs[id].client = Undefined
                    /\ reqs[id].handle = reqs[id].pool

\* C12 happens: a request got its member's producer error while another
\* member had launched nothing, and the failed member's next dispense has
\* run since.
C12_Witness ==
  /\ last.op = "tick"
  /\ \E id \in 1..Len(reqs) :
       /\ reqs[id].pool # Undefined
       /\ reqs[id].err = "ProducerError"
       /\ reqs[id].calls = 1
       /\ PoolAt(cluster, reqs[id].pool).ticks = 0
       /\ \E m \in 0..(Len(cluster) - 1) :
            m # reqs[id].pool /\ PoolAt(cluster, m).count = 0

\* What every add step does to what was there: one member more, the members
\* that were there at their index with their state, the cursor and the
\* requests as they were; and what every step does: no member goes away or
\* changes place.
AddAppends ==
  /\ last'.op = "add"
       => /\ Len(cluster') = Len(cluster) + 1
          /\ \A i \in 0..(Len(cluster) - 1) : PoolAt(cluster', i) = PoolAt(cluster, i)
          /\ PoolAt(cluster', Len(cluster)).create = NewProducer
          /\ PoolAt(cluster', Len(cluster)).max = factory.max
          /\ index' = index
          /\ reqs' = reqs
  /\ Len(cluster') >= Len(cluster)
  /\ \A i \in 0..(Len(cluster) - 1) :
       PoolAt(cluster', i).create = PoolAt(cluster, i).create

\* The new member of an add step.
NewMember == PoolAt(cluster', Len(cluster))

RunSelected(j) == reqs[Len(reqs) - run.len + j].pool

\* C18: while all waiting counts are zero at each acquire made since a
\* member was appended by add, the new member is selected within the first
\* N of these acquires (N counting the new member), and until it is
\* selected no member is selected twice.
C18_NewMemberReached ==
  run.sinceAdd
    => \A j \in 1..run.len :
         (\A i \in 1..(j - 1) : RunSelected(i) # Len(cluster) - 1)
           => /\ j <= Len(cluster)
              /\ \A i \in 1..(j - 1) : RunSelected(i) # RunSelected(j)

\* C18 happens: a third member was added with the cursor on member 1, after
\* an acquire on the two members before it; the next acquires selected
\* member 1 and then the new member.
C18_Witness ==
  /\ run = [len |-> 2, start |-> 1, sinceAdd |-> TRUE]
  /\ Len(cluster) = 3
  /\ Len(reqs) = 3
  /\ reqs[1].pool = 0
  /\ RunSelected(1) = 1
  /\ RunSelected(2) = 2

\* C20: the cluster answers requests in the order they were made only
\* within a member: when a request is still unanswered and a later one has
\* been answered, the two were routed to different members.  Such a state
\* is reached (C20_Witness), so the order across the cluster is not first
\* in, first out.
C20_OrderOnlyWithinMember ==
  \A a, b \in 1..Len(reqs) :
    (/\ a < b
     /\ reqs[a].pool # Undefined
     /\ reqs[b].pool # Undefined
     /\ reqs[a].calls = 0
     /\ reqs[b].calls >= 1)
      => reqs[a].pool # reqs[b].pool

\* C20 happens: request A was made before request B on the same cluster,
\* they were routed to different members, B's callback has run with a
\* client and A's has not run yet.
C20_Witness ==
  \E a, b \in 1..Len(reqs) :
    /\ a < b
    /\ reqs[a].pool # Undefined
    /\ reqs[b].pool # Undefined
    /\ reqs[a].pool # reqs[b].pool
    /\ reqs[a].calls = 0
    /\ reqs[b].calls = 1
    /\ reqs[b].client # Undefined

\* The number of requests routed to member m.
Routed(m) == Cardinality({id \in 1..Len(reqs) : reqs[id].pool = m})

\* C17: on a fresh cluster with a fixed set of members made from the same
\* configuration, producers that succeed at once and no release, after any
\* number of acquires the numbers of requests routed to any two members
\* differ by at most 1, while members have room and after every member has
\* a queue.
C17_EvenShare ==
  \A m1, m2 \in 0..(Len(cluster) - 1) : Routed(m1) - Routed(m2) <= 1

\* C17 happens: three members, all at their maximum and all with clients
\* waiting; the eighth acquire was routed by the least-queue fallback.
C17_Witness ==
  /\ Selected
  /\ SizeBefore = 3
  /\ \A i \in 0..(SizeBefore - 1) : WaitingBefore(i) > 0
  /\ Len(reqs) = 8
  /\ Routed(0) = 3
  /\ Routed(1) = 3
  /\ Routed(2) = 2

\* C19: the scan, the choice and the cursor update of an acquire are done
\* when the member's acquire is invoked: if the member calls the callback
\* before returning and the callback acquires again, the inner acquire
\* starts its scan at the cursor the outer one has advanced, on the member
\* list as the outer one left it, and the cursor ends where the inner one
\* puts it.
C19_NestedAcquireSeesAdvancedCursor ==
  (Selected /\ last.nested)
    => /\ reqs[last.id - 1].calls = 1
       /\ last.cursor = (reqs[last.id - 1].pool + 1) % SizeBefore
       /\ last.reads[1] = last.cursor
       /\ index = (last.useIndex + 1) % SizeBefore

\* C19 happens: with three members and the cursor on 0 the outer acquire
\* got its client from member 0 at once; the inner acquire, made from its
\* callback, scanned from 1, selected member 1, and left the cursor on 2.
C19_Witness ==
  /\ Selected
  /\ last.nested
  /\ SizeBefore = 3
  /\ reqs[last.id - 1].pool = 0
  /\ reqs[last.id - 1].client # Undefined
  /\ last.cursor = 1
  /\ last.useIndex = 1
  /\ index = 2

\* C11: two clusters made by separate create calls, from the same
\* configuration object, share nothing: an add, acquire, release or
\* producer completion on one leaves the member list, the cursor and the
\* four statistics of the other as they were, and every client a cluster
\* delivers was made by a producer added to that cluster.
C11_ClustersAreSeparate ==
  [][/\ self' = self => View(1 - self)' = View(1 - self)
     /\ \A id \in 1..Len(reqs') :
          reqs'[id].client # Undefined
            => /\ \E m \in 0..(Len(cluster') - 1) :
                    PoolAt(cluster', m).create = reqs'[id].client
               /\ reqs'[id].client \div MaxMembers = self']_vars

\* C11 happens: the first cluster has one member, the second has two; each
\* has delivered a client of its own, the second after the first, and their
\* cursors differ.
C11_Witness ==
  /\ self = 1
  /\ last.op = "acquire"
  /\ Len(cluster) = 2
  /\ index = 1
  /\ reqs[Len(reqs)].client = MaxMembers
  /\ Len(other.cluster) = 1
  /\ other.index = 0
  /\ Len(other.reqs) = 1
  /\ other.reqs[1].client = 0

====
